---- MODULE Spec2Model ----
(***************************************************************************)
(* Model of the Model Picker plugin operators (src/__init__.py).           *)
(*                                                                         *)
(* Every operator is a single synchronous request -> response handler run  *)
(* by the host, so each handler is one action.  The state is what the      *)
(* handlers read and write on the host: the dataset's schema and           *)
(* evaluation registry (read only), dataset.info (field notes), the        *)
(* saved-view registry and the current view, plus the last invocation      *)
(* (operator name, ctx.params, returned mapping, host primitives called).  *)
(*                                                                         *)
(* A Python str is a sequence of one-character strings, so that prefix,    *)
(* substring, replace and strip are computed as the code computes them.    *)
(* Python's None is the one-element tuple <<"None">>, which is no str of   *)
(* the model ("None" is not a character).                                  *)
(***************************************************************************)
EXTENDS Naturals, Sequences, FiniteSets, TLC

VARIABLES
    dataset,     \* ctx.dataset: field schema, frame field schema, evaluations
    info,        \* ctx.dataset.info (a dict)
    savedViews,  \* the host's saved-view registry, in list_saved_views() order
    view,        \* ctx.view: the set of field paths the current view excludes
    op,          \* name of the operator executed last
    params,      \* its ctx.params
    host,        \* the host's answers to the aggregation queries it issued
    calls,       \* host primitives with an effect that it invoked, in order
    result       \* the mapping it returned

vars == <<dataset, info, savedViews, view, op, params, host, calls, result>>

---------------------------------------------------------------------------
\* Bounds of the model.

\* Most evaluation runs registered on a dataset.
MaxEvals == 2

---------------------------------------------------------------------------
\* Python values.

None == <<"None">>

EmptyDict == [k \in {} |-> k]

\* bool(x) of a str or None.
Truthy(x) == x # None /\ x # <<>>

\* bool(xs) of a list.
NonEmpty(xs) == xs # <<>>

\* d.get(key, default)
Get(d, key, default) == IF key \in DOMAIN d THEN d[key] ELSE default

\* d[key] = value
DictSet(d, key, value) ==
    [k \in (DOMAIN d) \cup {key} |-> IF k = key THEN value ELSE d[k]]

\* del d[key]
DictDel(d, key) == [k \in (DOMAIN d) \ {key} |-> d[k]]

\* A defaultdict(list) is the list of its items [key, value] in insertion
\* order, the order Python iterates a dict in.
HasKey(d, key) == \E i \in 1..Len(d) : d[i].key = key

\* d.get(key, default)
ItemGet(d, key, default) ==
    IF HasKey(d, key)
    THEN d[CHOOSE i \in 1..Len(d) : d[i].key = key].value
    ELSE default

\* d[key] = value
ItemSet(d, key, value) ==
    IF HasKey(d, key)
    THEN [i \in 1..Len(d) |->
            IF d[i].key = key THEN [key |-> key, value |-> value] ELSE d[i]]
    ELSE Append(d, [key |-> key, value |-> value])

\* x in xs, for a list xs
InList(x, xs) == \E i \in 1..Len(xs) : xs[i] = x

\* set(xs)
ToSet(xs) == {xs[i] : i \in 1..Len(xs)}

\* s.startswith(prefix)
StartsWith(s, prefix) ==
    /\ Len(prefix) <= Len(s)
    /\ SubSeq(s, 1, Len(prefix)) = prefix

\* sub in s, for two str
Contains(sub, s) ==
    \E i \in 0..Len(s) :
        /\ i + Len(sub) <= Len(s)
        /\ SubSeq(s, i + 1, i + Len(sub)) = sub

\* s.replace(old, new) for a non-empty old: every non-overlapping occurrence,
\* found left to right.
RECURSIVE Replace(_, _, _)
Replace(s, old, new) ==
    IF s = <<>> THEN <<>>
    ELSE IF StartsWith(s, old)
         THEN new \o Replace(SubSeq(s, Len(old) + 1, Len(s)), old, new)
         ELSE <<Head(s)>> \o Replace(Tail(s), old, new)

IsSpace(c) == c \in {" ", "\t", "\n", "\r"}

RECURSIVE LStrip(_)
LStrip(s) == IF s # <<>> /\ IsSpace(Head(s)) THEN LStrip(Tail(s)) ELSE s

RECURSIVE RStrip(_)
RStrip(s) ==
    IF s # <<>> /\ IsSpace(s[Len(s)]) THEN RStrip(SubSeq(s, 1, Len(s) - 1)) ELSE s

\* s.strip()
Strip(s) == RStrip(LStrip(s))

\* list(set(xs)): the elements of xs once each.  Python leaves the order
\* open; the model keeps the order of first occurrence.
RECURSIVE ListOfSet(_)
ListOfSet(xs) ==
    IF xs = <<>> THEN <<>>
    ELSE LET front == ListOfSet(SubSeq(xs, 1, Len(xs) - 1))
             last  == xs[Len(xs)]
         IN  IF InList(last, front) THEN front ELSE Append(front, last)

\* The subsequence of xs at the positions in idx, in order.
RECURSIVE Pick(_, _)
Pick(xs, idx) ==
    IF xs = <<>> THEN <<>>
    ELSE LET front == Pick(SubSeq(xs, 1, Len(xs) - 1), idx)
         IN  IF Len(xs) \in idx THEN Append(front, xs[Len(xs)]) ELSE front

SubSeqsOf(xs) == {Pick(xs, idx) : idx \in SUBSET (1..Len(xs))}

---------------------------------------------------------------------------
\* The datasets the operators are run on.

\* Field paths.
f_gt    == <<"g", "t">>
f_gt_ev == <<"g", "t", ".", "e", "v">>
f_pr    == <<"p", "r">>
f_ev_pr == <<"e", "v", "_", "p", "r">>
f_fr    == <<"f", "r">>
f_ev_fr == <<"e", "v", "_", "f", "r">>

\* Evaluation keys.
k_ev == <<"e", "v">>
k_e2 == <<"e", "2">>

\* fo.Label subclasses; Segmentation stands for every type that
\* get_field_stats has no branch for.
LabelTypes ==
    {"Detections", "Classification", "Polylines", "Keypoints", "Segmentation"}

\* Every field a sample schema of the model may hold, in schema order.
SampleFields ==
    << [name |-> f_gt,    type |-> "Detections",     parent |-> None],
       [name |-> f_gt_ev, type |-> "StringField",    parent |-> f_gt],
       [name |-> f_pr,    type |-> "Classification", parent |-> None],
       [name |-> f_ev_pr, type |-> "Polylines",      parent |-> None] >>

\* Every field a frame schema of the model may hold.
FrameFields ==
    << [name |-> f_fr,    type |-> "Keypoints",      parent |-> None],
       [name |-> f_ev_fr, type |-> "Segmentation",   parent |-> None] >>

\* A schema holds a nested path only together with its parent field.
WellFormed(schema) ==
    \A i \in 1..Len(schema) :
        schema[i].parent # None =>
            \E j \in 1..Len(schema) : schema[j].name = schema[i].parent

SampleSchemas == {s \in SubSeqsOf(SampleFields) : WellFormed(s)}

\* None, where a schema is expected: a schema is a list of fields here, and
\* this list is no schema (its field has no type).
NoSchema == <<[name |-> None, type |-> "None", parent |-> None]>>

\* bool(schema) of a schema dict or None.
TruthySchema(schema) == schema # NoSchema /\ schema # <<>>

\* NoSchema: the dataset has no frames (it is no video dataset).
FrameSchemas ==
    {NoSchema} \cup {SubSeq(FrameFields, 1, n) : n \in 0..Len(FrameFields)}

\* Fields an evaluation's config may name as prediction or ground truth.
EvalFields == {f_gt, f_pr}
EvalKeys == {k_ev, k_e2}

EvalRuns == [eval_key : EvalKeys, pred_field : EvalFields, gt_field : EvalFields]

\* Evaluation registries: runs with distinct keys, in list_evaluations() order.
RECURSIVE Registries(_)
Registries(n) ==
    IF n = 0 THEN {<<>>}
    ELSE LET shorter == Registries(n - 1)
         IN  shorter \cup
             {Append(r, e) : r \in {q \in shorter : Len(q) = n - 1},
                             e \in EvalRuns}

DistinctKeys(r) ==
    \A i, j \in 1..Len(r) : i # j => r[i].eval_key # r[j].eval_key

EvalRegistries == {r \in Registries(MaxEvals) : DistinctKeys(r)}

Datasets ==
    [schema : SampleSchemas, frame_schema : FrameSchemas, evals : EvalRegistries]

\* Datasets without evaluation runs.
PlainDatasets == {d \in Datasets : d.evals = <<>>}

IsLabel(field) == field.type \in LabelTypes

\* dataset.get_field_schema(embedded_doc_type=fo.Label): the fields that
\* hold labels, in schema order.
get_field_schema_labels(ds) == SelectSeq(ds.schema, IsLabel)

\* dataset.get_frame_field_schema(embedded_doc_type=fo.Label), None when the
\* dataset has no frames.
get_frame_field_schema_labels(ds) ==
    IF ds.frame_schema = NoSchema THEN NoSchema
    ELSE SelectSeq(ds.frame_schema, IsLabel)

\* dataset.get_field_schema(flat=True): every field path of the schema.
get_field_schema_flat(ds) == ds.schema

\* dataset.get_frame_field_schema(flat=True), None when there are no frames.
get_frame_field_schema_flat(ds) == ds.frame_schema

\* list(schema.keys())
Keys(schema) == [i \in 1..Len(schema) |-> schema[i].name]

---------------------------------------------------------------------------
\* Helper functions shared across operators.

get_field_notes(inf) ==
    IF inf # EmptyDict /\ "model_picker_field_notes" \in DOMAIN inf
    THEN inf["model_picker_field_notes"]
    ELSE EmptyDict

save_field_notes(inf, notes) == DictSet(inf, "model_picker_field_notes", notes)

get_all_label_fields(ds) ==
    LET sample == get_field_schema_labels(ds)
        frame  == get_frame_field_schema_labels(ds)
        sample_label_fields ==
            IF TruthySchema(sample) THEN Keys(sample) ELSE <<>>
        frame_label_fields ==
            IF TruthySchema(frame) THEN Keys(frame) ELSE <<>>
    IN  sample_label_fields \o frame_label_fields

\* label_eval_mapping[key].append(record), on a defaultdict(list)
DictAppend(d, key, record) ==
    ItemSet(d, key, Append(ItemGet(d, key, <<>>), record))

\* Mutant of EvalStep: the second test is an elif.
EvalStep_Elif(mapping, run, label_fields) ==
    IF InList(run.pred_field, label_fields)
    THEN DictAppend(mapping, run.pred_field,
                    [eval_key |-> run.eval_key, role |-> "prediction"])
    ELSE IF InList(run.gt_field, label_fields)
    THEN DictAppend(mapping, run.gt_field,
                    [eval_key |-> run.eval_key, role |-> "ground_truth"])
    ELSE mapping

\* One pass of the loop over the evaluation keys.
EvalStep(mapping, run, label_fields) ==
    LET with_pred ==
            IF InList(run.pred_field, label_fields)
            THEN DictAppend(mapping, run.pred_field,
                            [eval_key |-> run.eval_key, role |-> "prediction"])
            ELSE mapping
    IN  IF InList(run.gt_field, label_fields)
        THEN DictAppend(with_pred, run.gt_field,
                        [eval_key |-> run.eval_key, role |-> "ground_truth"])
        ELSE with_pred

RECURSIVE EvalLoop(_, _)
EvalLoop(evals, label_fields) ==
    IF evals = <<>> THEN <<>>
    ELSE EvalStep(EvalLoop(SubSeq(evals, 1, Len(evals) - 1), label_fields),
                  evals[Len(evals)], label_fields)

generate_field_eval_mapping(ds, label_fields) == EvalLoop(ds.evals, label_fields)

\* Mutant of EvalFieldsOf: the field's own nested paths are kept.
RECURSIVE EvalFieldsOf_OwnPathsToo(_, _, _)
EvalFieldsOf_OwnPathsToo(all_fields, eval_key, field) ==
    IF all_fields = <<>> THEN <<>>
    ELSE LET f == Head(all_fields)
             rest == EvalFieldsOf_OwnPathsToo(Tail(all_fields), eval_key, field)
         IN  IF Contains(eval_key, f) THEN <<f>> \o rest ELSE rest

\* [f for f in all_fields if eval_key in f and not f.startswith(field)]
RECURSIVE EvalFieldsOf(_, _, _)
EvalFieldsOf(all_fields, eval_key, field) ==
    IF all_fields = <<>> THEN <<>>
    ELSE LET f == Head(all_fields)
             rest == EvalFieldsOf(Tail(all_fields), eval_key, field)
         IN  IF Contains(eval_key, f) /\ ~StartsWith(f, field)
             THEN <<f>> \o rest ELSE rest

\* The associated_fields of one label field, before list(set(...)).
RECURSIVE AssociatedFields(_, _, _)
AssociatedFields(field, eval_infos, all_fields) ==
    IF eval_infos = <<>> THEN <<field>>
    ELSE AssociatedFields(field, SubSeq(eval_infos, 1, Len(eval_infos) - 1),
                          all_fields)
         \o EvalFieldsOf(all_fields, eval_infos[Len(eval_infos)].eval_key, field)

\* The loop over the label fields (lines 77-83).
RECURSIVE ExcludeLoop(_, _, _)
ExcludeLoop(fields, label_eval_mapping, all_fields) ==
    IF fields = <<>> THEN <<>>
    ELSE LET field == fields[Len(fields)]
             eval_infos == ItemGet(label_eval_mapping, field, <<>>)
         IN  ItemSet(ExcludeLoop(SubSeq(fields, 1, Len(fields) - 1),
                                 label_eval_mapping, all_fields),
                     field,
                     ListOfSet(AssociatedFields(field, eval_infos, all_fields)))

generate_field_exclude_mapping(ds, label_fields) ==
    LET label_eval_mapping == generate_field_eval_mapping(ds, label_fields)
        sample_schema == Keys(get_field_schema_flat(ds))
        frame_flat == get_frame_field_schema_flat(ds)
        frame_schema == IF frame_flat = NoSchema THEN <<>> ELSE Keys(frame_flat)
        all_fields == sample_schema \o frame_schema
    IN  ExcludeLoop(label_fields, label_eval_mapping, all_fields)

---------------------------------------------------------------------------
\* What an invocation leaves behind.

\* ctx.params holding the keys whose value is not Absent.
Absent == <<"Absent">>

Params2(k1, v1, k2, v2) ==
    [k \in {x \in {k1} : v1 # Absent} \cup {x \in {k2} : v2 # Absent} |->
        IF k = k1 THEN v1 ELSE v2]

Params3(k1, v1, k2, v2, k3, v3) ==
    [k \in (DOMAIN Params2(k1, v1, k2, v2)) \cup {x \in {k3} : v3 # Absent} |->
        IF k = k3 THEN v3 ELSE Params2(k1, v1, k2, v2)[k]]

NoHost == EmptyDict

\* The state before any operator has run on the dataset ds.
Fresh(ds) ==
    /\ dataset = ds
    /\ info = EmptyDict
    /\ savedViews = <<>>
    /\ view = {}
    /\ op = "none"
    /\ params = EmptyDict
    /\ host = NoHost
    /\ calls = <<>>
    /\ result = EmptyDict

---------------------------------------------------------------------------
\* UpdateFieldNotes

t_ok    == <<"o", "k">>
t_fix   == <<"f", "i", "x">>
t_blank == <<" ">>

NoteTexts == {Absent, None, <<>>, t_ok, t_fix, t_blank}
NoteFieldNames == {Absent, f_gt, f_pr}

UpdateFieldNotesParams ==
    {Params2("field_name", fn, "notes", nt) : fn \in NoteFieldNames, nt \in NoteTexts}

\* Mutant of UpdatedNotes: an empty text is stored like any other.
UpdatedNotes_StoresEmpty(all_notes, field_name, notes_text) ==
    DictSet(all_notes, field_name,
            IF notes_text = None THEN <<>> ELSE notes_text)

\* all_notes after the update of lines 109-113.
UpdatedNotes(all_notes, field_name, notes_text) ==
    IF Truthy(notes_text) THEN DictSet(all_notes, field_name, notes_text)
    ELSE IF field_name \in DOMAIN all_notes THEN DictDel(all_notes, field_name)
    ELSE all_notes

UpdateFieldNotes ==
    \E p \in UpdateFieldNotesParams :
        LET field_name == Get(p, "field_name", None)
            notes_text == Get(p, "notes", <<>>)
            all_notes  == get_field_notes(info)
        IN  /\ info' = save_field_notes(info,
                           UpdatedNotes(all_notes, field_name, notes_text))
            /\ op' = "update_field_notes"
            /\ params' = p
            /\ host' = NoHost
            /\ calls' = <<"dataset.save">>
            /\ result' = [success |-> TRUE]
            /\ UNCHANGED <<dataset, savedViews, view>>

---------------------------------------------------------------------------
\* GetLabelFieldsMetadata

\* The entries appended for one schema (lines 145-165).
MetadataEntries(schema, level, label_eval_mapping, field_notes) ==
    LET Entry(field) ==
            [name |-> field.name,
             type |-> field.type,
             level |-> level,
             evaluations |-> ItemGet(label_eval_mapping, field.name, <<>>),
             notes |-> Get(field_notes, field.name, <<>>)]
    IN  IF TruthySchema(schema)
        THEN [i \in 1..Len(schema) |-> Entry(schema[i])] ELSE <<>>

GetLabelFieldsMetadata ==
    LET sample_schema == get_field_schema_labels(dataset)
        frame_schema == get_frame_field_schema_labels(dataset)
        all_label_fields == get_all_label_fields(dataset)
        label_eval_mapping ==
            generate_field_eval_mapping(dataset, all_label_fields)
        field_notes == get_field_notes(info)
        sample_fields ==
            MetadataEntries(sample_schema, "sample", label_eval_mapping, field_notes)
        frame_fields ==
            MetadataEntries(frame_schema, "frame", label_eval_mapping, field_notes)
    IN  /\ op' = "get_label_fields_metadata"
        /\ params' = EmptyDict
        /\ host' = NoHost
        /\ calls' = <<>>
        /\ result' = [sample_fields |-> sample_fields,
                      frame_fields |-> frame_fields,
                      total_count |-> Len(sample_fields) + Len(frame_fields)]
        /\ UNCHANGED <<dataset, info, savedViews, view>>

---------------------------------------------------------------------------
\* Field notes: the operators that write and read them.

InitNotes == \E ds \in PlainDatasets : Fresh(ds)

NextNotes == UpdateFieldNotes \/ GetLabelFieldsMetadata

SpecNotes == InitNotes /\ [][NextNotes]_vars

---------------------------------------------------------------------------
\* GetLabelFieldsStatistics

\* Most label fields of a dataset whose statistics are queried.
MaxStatFields == 2

s_frames     == <<"f", "r", "a", "m", "e", "s", ".">>
s_detections == <<".", "d", "e", "t", "e", "c", "t", "i", "o", "n", "s">>
s_polylines  == <<".", "p", "o", "l", "y", "l", "i", "n", "e", "s">>
s_keypoints  == <<".", "k", "e", "y", "p", "o", "i", "n", "t", "s">>
s_label      == <<".", "l", "a", "b", "e", "l">>

c_cat == <<"c", "a", "t">>
c_car == <<"c", "a", "r">>
c_ant == <<"a", "n", "t">>

\* The characters of the class labels, in code point order.
Chars == <<"a", "b", "c", "d", "e", "f", "g", "h", "i", "j", "k", "l", "m",
           "n", "o", "p", "q", "r", "s", "t", "u", "v", "w", "x", "y", "z">>

Ord(c) == CHOOSE i \in 1..Len(Chars) : Chars[i] = c

\* s < t, for two str
RECURSIVE StrLess(_, _)
StrLess(s, t) ==
    IF t = <<>> THEN FALSE
    ELSE IF s = <<>> THEN TRUE
    ELSE IF Head(s) = Head(t) THEN StrLess(Tail(s), Tail(t))
    ELSE Ord(Head(s)) < Ord(Head(t))

\* The sorted list xs with x put in its place, after its equals.
RECURSIVE Insert(_, _)
Insert(x, xs) ==
    IF xs = <<>> THEN <<x>>
    ELSE IF StrLess(x, Head(xs)) THEN <<x>> \o xs
    ELSE <<Head(xs)>> \o Insert(x, Tail(xs))

\* sorted(xs)
RECURSIVE Sorted(_)
Sorted(xs) ==
    IF xs = <<>> THEN <<>>
    ELSE Insert(xs[Len(xs)], Sorted(SubSeq(xs, 1, Len(xs) - 1)))

IsNotNone(c) == c # None

\* The path field_name is queried under.
FieldPath(field_name, level) ==
    IF level = "sample" THEN field_name ELSE s_frames \o field_name

\* The path whose values ctx.dataset.count counts, by label type.
CountPath(field_path, doc_type) ==
    CASE doc_type = "Detections"     -> field_path \o s_detections
      [] doc_type = "Classification" -> field_path \o s_label
      [] doc_type = "Polylines"      -> field_path \o s_polylines
      [] doc_type = "Keypoints"      -> field_path \o s_keypoints
      [] OTHER                       -> field_path

\* The path whose values ctx.dataset.distinct lists, by label type.
DistinctPath(field_path, doc_type) ==
    CASE doc_type = "Detections"     -> field_path \o s_detections \o s_label
      [] doc_type = "Classification" -> field_path \o s_label
      [] doc_type = "Polylines"      -> field_path \o s_polylines \o s_label
      [] doc_type = "Keypoints"      -> field_path \o s_keypoints \o s_label
      [] OTHER                       -> field_path \o s_label

\* What the host answers to one query: a value, or it raises.
Raises == [ok |-> FALSE]
Returns(v) == [ok |-> TRUE, value |-> v]

CountAnswers == {Raises, Returns(2)}
DistinctAnswers == {Raises, Returns(<<c_cat, None, c_ant, c_car>>)}

\* Mutant of StatsOf: each query has a try block of its own.
StatsOf_SeparateTry(counted, distinct) ==
    [total_labels |-> IF counted.ok THEN counted.value ELSE 0,
     classes |-> IF distinct.ok
                 THEN Sorted(SelectSeq(distinct.value, IsNotNone)) ELSE <<>>]

\* The stats of one field once its queries were answered: a raising count
\* leaves the try block before anything is assigned; a raising distinct
\* leaves it (or, in the generic branch, its own try block) after
\* total_labels was assigned.
StatsOf(counted, distinct) ==
    IF ~counted.ok THEN [total_labels |-> 0, classes |-> <<>>]
    ELSE IF ~distinct.ok THEN [total_labels |-> counted.value, classes |-> <<>>]
    ELSE [total_labels |-> counted.value,
          classes |-> Sorted(SelectSeq(distinct.value, IsNotNone))]

get_field_stats(field, level, field_notes, answers) ==
    LET doc_type == field.type
        field_path == FieldPath(field.name, level)
        counted == answers.count[CountPath(field_path, doc_type)]
        distinct == answers.distinct[DistinctPath(field_path, doc_type)]
        stats == StatsOf(counted, distinct)
    IN  [name |-> field.name,
         level |-> level,
         type |-> doc_type,
         total_labels |-> stats.total_labels,
         classes |-> stats.classes,
         notes |-> Get(field_notes, field.name, <<>>)]

\* The label fields of a dataset with their levels, in the order queried.
LeveledFields(ds) ==
    LET Sample(field) == [field |-> field, level |-> "sample"]
        Frame(field) == [field |-> field, level |-> "frame"]
        sample_schema == get_field_schema_labels(ds)
        frame_schema == get_frame_field_schema_labels(ds)
    IN  (IF TruthySchema(sample_schema)
         THEN [i \in 1..Len(sample_schema) |-> Sample(sample_schema[i])]
         ELSE <<>>)
        \o (IF TruthySchema(frame_schema)
            THEN [i \in 1..Len(frame_schema) |-> Frame(frame_schema[i])]
            ELSE <<>>)

CountPathsOf(ds) ==
    {CountPath(FieldPath(lf.field.name, lf.level), lf.field.type) :
        lf \in ToSet(LeveledFields(ds))}

DistinctPathsOf(ds) ==
    {DistinctPath(FieldPath(lf.field.name, lf.level), lf.field.type) :
        lf \in ToSet(LeveledFields(ds))}

\* The host's answers to the queries one invocation issues.
HostAnswers(ds) ==
    [count : [CountPathsOf(ds) -> CountAnswers],
     distinct : [DistinctPathsOf(ds) -> DistinctAnswers]]

GetLabelFieldsStatistics ==
    \E answers \in HostAnswers(dataset) :
        LET sample_schema == get_field_schema_labels(dataset)
            frame_schema == get_frame_field_schema_labels(dataset)
            field_notes == get_field_notes(info)
            SampleStats(field) ==
                get_field_stats(field, "sample", field_notes, answers)
            FrameStats(field) ==
                get_field_stats(field, "frame", field_notes, answers)
            sample_stats ==
                IF TruthySchema(sample_schema)
                THEN [i \in 1..Len(sample_schema) |->
                        SampleStats(sample_schema[i])]
                ELSE <<>>
            frame_stats ==
                IF TruthySchema(frame_schema)
                THEN [i \in 1..Len(frame_schema) |->
                        FrameStats(frame_schema[i])]
                ELSE <<>>
        IN  /\ op' = "get_label_fields_statistics"
            /\ params' = EmptyDict
            /\ host' = answers
            /\ calls' = <<>>
            /\ result' = [sample_fields |-> sample_stats,
                          frame_fields |-> frame_stats]
            /\ UNCHANGED <<dataset, info, savedViews, view>>

StatsDatasets ==
    {d \in PlainDatasets : Len(get_all_label_fields(d)) <= MaxStatFields}

InitStats == \E ds \in StatsDatasets : Fresh(ds)

NextStats == GetLabelFieldsStatistics

SpecStats == InitStats /\ [][NextStats]_vars

---------------------------------------------------------------------------
\* ApplyModelPicker and ModelPicker

\* ctx.dataset.exclude_fields(fields): the view that excludes these paths.
exclude_fields_view(fields) == ToSet(fields)

\* [f for f in all_fields if f not in selected_fields]
RECURSIVE NotSelected(_, _)
NotSelected(all_fields, selected_fields) ==
    IF all_fields = <<>> THEN <<>>
    ELSE LET rest == NotSelected(Tail(all_fields), selected_fields)
         IN  IF InList(Head(all_fields), selected_fields) THEN rest
             ELSE <<Head(all_fields)>> \o rest

\* Mutant of ExcludeList: the hidden fields are not expanded.
ExcludeList_Unexpanded(fields_to_hide, field_exclude_mapping) == fields_to_hide

\* The exclude_fields list built by the loop over the fields to hide.
RECURSIVE ExcludeList(_, _)
ExcludeList(fields_to_hide, field_exclude_mapping) ==
    IF fields_to_hide = <<>> THEN <<>>
    ELSE ItemGet(field_exclude_mapping, Head(fields_to_hide), <<>>)
         \o ExcludeList(Tail(fields_to_hide), field_exclude_mapping)

\* Whether ApplyModelPicker sets a view for this exclude_fields list.
AppliesView(exclude_fields) == NonEmpty(exclude_fields)

\* The selections the panel may send for a dataset: no selected_fields at
\* all, or any of its label fields in schema order.
ApplyModelPickerParams(all_fields) ==
    {EmptyDict} \cup {[selected_fields |-> sel] : sel \in SubSeqsOf(all_fields)}

\* (A name bound by \E over a one-element set is computed once for the step.)
ApplyModelPicker ==
    \E all_fields \in {get_all_label_fields(dataset)} :
    \E field_exclude_mapping \in
            {generate_field_exclude_mapping(dataset, all_fields)} :
        \E p \in ApplyModelPickerParams(all_fields) :
            LET selected_fields == Get(p, "selected_fields", <<>>)
                fields_to_hide == NotSelected(all_fields, selected_fields)
                exclude_fields ==
                    ExcludeList(fields_to_hide, field_exclude_mapping)
            IN  /\ IF AppliesView(exclude_fields)
                   THEN /\ view' = exclude_fields_view(ListOfSet(exclude_fields))
                        /\ calls' = <<"set_view">>
                   ELSE /\ view' = view
                        /\ calls' = <<>>
                /\ op' = "apply_model_picker"
                /\ params' = p
                /\ host' = NoHost
                /\ result' = [excluded_count |-> Len(fields_to_hide),
                              selected_count |-> Len(selected_fields)]
                /\ UNCHANGED <<dataset, info, savedViews>>

\* The labels whose checkbox is off (lines 346-349).
RECURSIVE Unchecked(_, _)
Unchecked(label_fields, p) ==
    IF label_fields = <<>> THEN <<>>
    ELSE LET rest == Unchecked(Tail(label_fields), p)
         IN  IF ~p[Head(label_fields)] THEN <<Head(label_fields)>> \o rest
             ELSE rest

ModelPicker ==
    \E label_fields \in {get_all_label_fields(dataset)} :
    \E field_exclude_mapping \in
            {generate_field_exclude_mapping(dataset, label_fields)} :
        \E p \in [ToSet(label_fields) -> BOOLEAN] :
            LET selected_fields == Unchecked(label_fields, p)
                exclude_fields ==
                    ExcludeList(selected_fields, field_exclude_mapping)
            IN  /\ view' = exclude_fields_view(exclude_fields)
                /\ calls' = <<"set_view">>
                /\ op' = "model_picker"
                /\ params' = p
                /\ host' = NoHost
                /\ result' = EmptyDict
                /\ UNCHANGED <<dataset, info, savedViews>>

\* Most evaluation runs of a dataset whose view is filtered.
MaxPickerEvals == 1

PickerDatasets == {d \in Datasets : Len(d.evals) <= MaxPickerEvals}

InitPicker == \E ds \in PickerDatasets : Fresh(ds)

NextPicker == ApplyModelPicker \/ ModelPicker

SpecPicker == InitPicker /\ [][NextPicker]_vars

---------------------------------------------------------------------------
\* The helper functions, called on their own.

\* The label-field lists a helper is called with: the first n label fields
\* of the dataset, for every n.
LabelFieldLists(ds) ==
    {SubSeq(get_all_label_fields(ds), 1, n) :
        n \in 0..Len(get_all_label_fields(ds))}

CallEvalMapping ==
    \E label_fields \in LabelFieldLists(dataset) :
        /\ op' = "generate_field_eval_mapping"
        /\ params' = [label_fields |-> label_fields]
        /\ host' = NoHost
        /\ calls' = <<>>
        /\ result' = generate_field_eval_mapping(dataset, label_fields)
        /\ UNCHANGED <<dataset, info, savedViews, view>>

CallExcludeMapping ==
    \E label_fields \in LabelFieldLists(dataset) :
        /\ op' = "generate_field_exclude_mapping"
        /\ params' = [label_fields |-> label_fields]
        /\ host' = NoHost
        /\ calls' = <<>>
        /\ result' = generate_field_exclude_mapping(dataset, label_fields)
        /\ UNCHANGED <<dataset, info, savedViews, view>>

InitMapping == \E ds \in Datasets : Fresh(ds)

NextMapping == CallEvalMapping \/ CallExcludeMapping

SpecMapping == InitMapping /\ [][NextMapping]_vars

---------------------------------------------------------------------------
\* The saved-view registry.

Marker ==
    <<"[", "M", "o", "d", "e", "l", " ", "P", "i", "c", "k", "e", "r", "]">>

\* View names.
v_a == <<"a">>
v_b == <<"b">>
v_c == <<"c">>

c_orange == <<"#", "F", "F", "6", "D", "0", "4">>

\* Descriptions typed into the save form.
d_x        == <<"x">>
d_trailing == <<"x", " ">>
d_quoting  == <<"r", "e", " ">> \o Marker

\* Descriptions of views saved by the host's own save dialog.
h_lower   ==
    <<"[", "m", "o", "d", "e", "l", " ", "p", "i", "c", "k", "e", "r", "]",
      " ", "x">>
h_later   == <<"x", " ">> \o Marker
h_partial == SubSeq(Marker, 1, Len(Marker) - 1)
h_exact   == Marker
h_marked  == Marker \o <<" ", "x">>

HostDescriptions == {None, <<>>, d_x, h_lower, h_later, h_partial, h_exact, h_marked}

\* dataset.list_saved_views()
list_saved_views(registry) ==
    [i \in 1..Len(registry) |-> registry[i].name]

\* dataset.get_saved_view_info(view_name)
get_saved_view_info(registry, view_name) ==
    registry[CHOOSE i \in 1..Len(registry) : registry[i].name = view_name]

\* dataset.save_view(name, view, description=..., color=..., overwrite=True):
\* an existing view of that name is replaced, a new one is added.
save_view(registry, name, saved, description, color) ==
    LET entry == [name |-> name, description |-> description,
                  color |-> color, view |-> saved]
    IN  IF InList(name, list_saved_views(registry))
        THEN [i \in 1..Len(registry) |->
                IF registry[i].name = name THEN entry ELSE registry[i]]
        ELSE Append(registry, entry)

\* dataset.delete_saved_view(name)
RECURSIVE delete_saved_view(_, _)
delete_saved_view(registry, name) ==
    IF registry = <<>> THEN <<>>
    ELSE IF Head(registry).name = name
         THEN delete_saved_view(Tail(registry), name)
         ELSE <<Head(registry)>> \o delete_saved_view(Tail(registry), name)

\* The description SaveModelPickerView stores (lines 424-427).
FullDescription(description) ==
    IF Truthy(description) THEN Marker \o <<" ">> \o description ELSE Marker

SaveModelPickerViewParams ==
    {Params3("name", n, "description", d, "color", c) :
        n \in {v_a, v_b},
        d \in {Absent, None, <<>>, d_x, d_trailing, d_quoting},
        c \in {Absent, c_orange}}

SaveModelPickerView ==
    \E p \in SaveModelPickerViewParams :
        LET name == Get(p, "name", None)
            description == Get(p, "description", None)
            color == Get(p, "color", None)
            full_description == FullDescription(description)
        IN  /\ savedViews' =
                   save_view(savedViews, name, view, full_description, color)
            /\ op' = "save_model_picker_view"
            /\ params' = p
            /\ host' = NoHost
            /\ calls' = <<"save_view", "reload_dataset">>
            /\ result' = [view_name |-> name]
            /\ UNCHANGED <<dataset, info, view>>

\* Mutant of IsModelPickerView: the marker is looked for anywhere.
IsModelPickerView_Anywhere(description) ==
    Truthy(description) /\ Contains(Marker, description)

\* Whether a view with this description is listed (line 467).
IsModelPickerView(description) ==
    Truthy(description) /\ StartsWith(description, Marker)

\* The description a listed view is returned with (line 469).
CleanDescription(description) == Strip(Replace(description, Marker, <<>>))

\* The loop over all_saved_views (lines 461-476).
RECURSIVE ModelPickerViews(_, _)
ModelPickerViews(names, registry) ==
    IF names = <<>> THEN <<>>
    ELSE LET view_name == Head(names)
             description == get_saved_view_info(registry, view_name).description
             rest == ModelPickerViews(Tail(names), registry)
         IN  IF IsModelPickerView(description)
             THEN <<[name |-> view_name,
                     description |-> CleanDescription(description)]>> \o rest
             ELSE rest

ListModelPickerViews ==
    \E model_picker_views \in
            {ModelPickerViews(list_saved_views(savedViews), savedViews)} :
        /\ op' = "list_model_picker_views"
        /\ params' = EmptyDict
        /\ host' = NoHost
        /\ calls' = <<>>
        /\ result' = [views |-> model_picker_views,
                      total_count |-> Len(model_picker_views)]
        /\ UNCHANGED <<dataset, info, savedViews, view>>

s_required == <<"V", "i", "e", "w", " ", "n", "a", "m", "e", " ",
                "i", "s", " ", "r", "e", "q", "u", "i", "r", "e", "d">>
s_view     == <<"V", "i", "e", "w", " ", "'">>
s_missing  == <<"'", " ", "d", "o", "e", "s", " ", "n", "o", "t", " ",
                "e", "x", "i", "s", "t">>
\* str(e) of the exception a failing delete_saved_view raises.
s_failure  == <<"f", "a", "i", "l", "e", "d">>

\* f"View '{view_name}' does not exist"
DoesNotExist(view_name) == s_view \o view_name \o s_missing

\* Mutant of ViewExists: the registry is not consulted.
ViewExists_Unchecked(view_name, all_views) == TRUE

\* Whether DeleteModelPickerView takes the view for one of the registry.
ViewExists(view_name, all_views) == InList(view_name, all_views)

DeleteModelPickerViewParams ==
    {Params2("name", n, "unused", Absent) :
        n \in {Absent, None, <<>>, v_a, v_b, v_c}}

DeleteModelPickerView ==
    \E p \in DeleteModelPickerViewParams, raises \in BOOLEAN :
        LET view_name == Get(p, "name", None)
            all_views == list_saved_views(savedViews)
        IN  /\ op' = "delete_model_picker_view"
            /\ params' = p
            /\ IF ~Truthy(view_name)
               THEN /\ result' = [success |-> FALSE, error |-> s_required]
                    /\ host' = NoHost
                    /\ calls' = <<>>
                    /\ savedViews' = savedViews
               ELSE IF ~ViewExists(view_name, all_views)
               THEN /\ result' = [success |-> FALSE,
                                  error |-> DoesNotExist(view_name)]
                    /\ host' = NoHost
                    /\ calls' = <<>>
                    /\ savedViews' = savedViews
               ELSE IF raises
               THEN /\ result' = [success |-> FALSE, error |-> s_failure]
                    /\ host' = [delete_saved_view |-> Raises]
                    /\ calls' = <<"delete_saved_view">>
                    /\ savedViews' = savedViews
               ELSE /\ result' = [success |-> TRUE, deleted_view |-> view_name]
                    /\ host' = [delete_saved_view |-> Returns(None)]
                    /\ calls' = <<"delete_saved_view">>
                    /\ savedViews' = delete_saved_view(savedViews, view_name)
            /\ UNCHANGED <<dataset, info, view>>

\* Most views the host's own dialog has saved before the plugin is used.
MaxHostViews == 2

HostViews ==
    [name : {v_a, v_b}, description : HostDescriptions,
     color : {None}, view : {{}}]

RECURSIVE HostRegistries(_)
HostRegistries(n) ==
    IF n = 0 THEN {<<>>}
    ELSE LET shorter == HostRegistries(n - 1)
         IN  shorter \cup
             {Append(r, e) : r \in {q \in shorter : Len(q) = n - 1},
                             e \in HostViews}

DistinctNames(registry) ==
    \A i, j \in 1..Len(registry) : i # j => registry[i].name # registry[j].name

InitViews ==
    \E ds \in {d \in PlainDatasets : d.schema = <<>> /\ d.frame_schema = NoSchema},
       registry \in {r \in HostRegistries(MaxHostViews) : DistinctNames(r)} :
        /\ dataset = ds
        /\ info = EmptyDict
        /\ savedViews = registry
        /\ view = {}
        /\ op = "none"
        /\ params = EmptyDict
        /\ host = NoHost
        /\ calls = <<>>
        /\ result = EmptyDict

NextViews == SaveModelPickerView \/ ListModelPickerViews \/ DeleteModelPickerView

SpecViews == InitViews /\ [][NextViews]_vars

---------------------------------------------------------------------------
\* Properties.

\* The map stored under model_picker_field_notes, empty when there is none.
StoredNotes ==
    IF "model_picker_field_notes" \in DOMAIN info
    THEN info["model_picker_field_notes"] ELSE EmptyDict

\* C1: after UpdateFieldNotes with a non-empty text t for field f, reading the
\* note of f gives t; after one with an empty or absent text, f is no key of
\* the stored map; and the stored map never holds an empty string.
C1_NoteSetThenRead ==
    /\ \A f \in DOMAIN StoredNotes : Len(StoredNotes[f]) > 0
    /\ op = "update_field_notes" =>
          LET f == IF "field_name" \in DOMAIN params
                   THEN params["field_name"] ELSE None
              hasText == /\ "notes" \in DOMAIN params
                         /\ params["notes"] # None
                         /\ Len(params["notes"]) > 0
          IN  IF hasText
              THEN /\ f \in DOMAIN StoredNotes
                   /\ StoredNotes[f] = params["notes"]
                   /\ Get(get_field_notes(info), f, <<>>) = params["notes"]
              ELSE f \notin DOMAIN StoredNotes

\* An empty text was sent for gt while pr keeps its note.
C1_Witness ==
    /\ op = "update_field_notes"
    /\ "notes" \in DOMAIN params
    /\ params["notes"] = <<>>
    /\ Get(params, "field_name", None) = f_gt
    /\ DOMAIN StoredNotes = {f_pr}
    /\ StoredNotes[f_pr] = t_fix

\* The description begins with the 14 characters of the marker, compared
\* one by one.
BeginsWithMarker(description) ==
    /\ description # None
    /\ Len(description) >= 14
    /\ \A i \in 1..14 : description[i] = Marker[i]

ListedNames == {result.views[i].name : i \in 1..Len(result.views)}

\* C2: ListModelPickerViews returns an entry for a view exactly if the view's
\* stored description begins with "[Model Picker]" (same case, whole marker,
\* at the start), one entry per such view, and total_count is their number.
C2_ListsExactlyMarkedViews ==
    op = "list_model_picker_views" =>
        /\ \A i \in 1..Len(savedViews) :
              (savedViews[i].name \in ListedNames)
                  <=> BeginsWithMarker(savedViews[i].description)
        /\ \A i \in 1..Len(savedViews) :
              savedViews[i].description \in {None, <<>>, h_lower, h_later, h_partial}
                  => savedViews[i].name \notin ListedNames
        /\ \A i, j \in 1..Len(result.views) :
              i # j => result.views[i].name # result.views[j].name
        /\ ListedNames \subseteq {savedViews[i].name : i \in 1..Len(savedViews)}
        /\ result.total_count = Len(result.views)

\* One view carries the marker later in its description, one at its start.
C2_Witness ==
    /\ op = "list_model_picker_views"
    /\ Len(savedViews) = 2
    /\ \E i \in 1..2 : savedViews[i].description = h_later
    /\ \E i \in 1..2 : savedViews[i].description = h_marked
    /\ result.total_count = 1

\* C3: DeleteModelPickerView with a non-empty name that is not in the registry
\* returns {success: false, error: "View '<name>' does not exist"}, does not
\* call delete_saved_view and leaves the registry as it was.
C3_DeleteMissingView ==
    [][ (/\ op' = "delete_model_picker_view"
         /\ "name" \in DOMAIN params'
         /\ params'["name"] # None
         /\ Len(params'["name"]) > 0
         /\ \A i \in 1..Len(savedViews) : savedViews[i].name # params'["name"])
        => /\ result' = [success |-> FALSE,
                         error |-> s_view \o params'["name"] \o s_missing]
           /\ \A i \in 1..Len(calls') : calls'[i] # "delete_saved_view"
           /\ savedViews' = savedViews ]_vars

\* The view c was asked to be deleted from a registry that holds a and b.
C3_Witness ==
    /\ op = "delete_model_picker_view"
    /\ Get(params, "name", None) = v_c
    /\ Len(savedViews) = 2
    /\ result.success = FALSE
    /\ result.error = <<"V", "i", "e", "w", " ", "'", "c", "'", " ", "d", "o",
                        "e", "s", " ", "n", "o", "t", " ", "e", "x", "i", "s", "t">>

LabelFieldSet == ToSet(get_all_label_fields(dataset))

SelectedSet ==
    IF "selected_fields" \in DOMAIN params
    THEN ToSet(params["selected_fields"]) ELSE {}

\* C4: after ApplyModelPicker with a selection that holds every label field,
\* the current view excludes no field.
C4_SelectAllClearsView ==
    (op = "apply_model_picker" /\ LabelFieldSet \subseteq SelectedSet)
        => view = {}

\* The fields excluded together with the label field f.
ExcludedWith(f) ==
    ToSet(ItemGet(generate_field_exclude_mapping(
                      dataset, get_all_label_fields(dataset)), f, <<>>))

\* C5: ApplyModelPicker with an empty selection, on a dataset with a label
\* field, sets the view that excludes the union of the mapped sets of all
\* label fields, and returns excluded_count = number of label fields and
\* selected_count = 0.
C5_HideAll ==
    (/\ op = "apply_model_picker"
     /\ SelectedSet = {}
     /\ LabelFieldSet # {})
        => /\ view = UNION {ExcludedWith(f) : f \in LabelFieldSet}
           /\ LabelFieldSet \subseteq view
           /\ calls = <<"set_view">>
           /\ result.excluded_count = Len(get_all_label_fields(dataset))
           /\ result.selected_count = 0

\* Everything is hidden on a dataset where that takes a sample field
\* written by an evaluation along.
C5_Witness ==
    /\ op = "apply_model_picker"
    /\ SelectedSet = {}
    /\ dataset.evals # <<>>
    /\ view = {f_gt, f_pr, f_gt_ev}
    /\ result = [excluded_count |-> 2, selected_count |-> 0]

\* k occurs in g, character by character.
OccursIn(k, g) ==
    \E i \in 0..Len(g) :
        /\ i + Len(k) <= Len(g)
        /\ \A j \in 1..Len(k) : g[i + j] = k[j]

\* g begins with f, character by character.
BeginsWith(g, f) ==
    /\ Len(f) <= Len(g)
    /\ \A j \in 1..Len(f) : g[j] = f[j]

\* Every flat schema field of the dataset, sample level and frame level.
FlatFields ==
    {dataset.schema[i].name : i \in 1..Len(dataset.schema)}
    \cup (IF dataset.frame_schema = NoSchema THEN {}
          ELSE {dataset.frame_schema[i].name : i \in 1..Len(dataset.frame_schema)})

\* The keys of the evaluations that name f as prediction or ground truth.
EvalKeysOf(f) ==
    {dataset.evals[i].eval_key : i \in
        {n \in 1..Len(dataset.evals) :
            dataset.evals[n].pred_field = f \/ dataset.evals[n].gt_field = f}}

\* C6: generate_field_exclude_mapping maps each label field f to a list without
\* duplicates whose elements are f and every flat schema field that contains
\* an evaluation key associated with f and does not start with f.
C6_ExcludeMapping ==
    op = "generate_field_exclude_mapping" =>
        /\ {result[i].key : i \in 1..Len(result)} = ToSet(params.label_fields)
        /\ \A i, j \in 1..Len(result) : i # j => result[i].key # result[j].key
        /\ \A i \in 1..Len(result) :
              LET f == result[i].key
                  fields == result[i].value
              IN  /\ \A a, b \in 1..Len(fields) : a # b => fields[a] # fields[b]
                  /\ f \in ToSet(fields)
                  /\ ToSet(fields) =
                        {f} \cup {g \in FlatFields :
                                    /\ \E k \in EvalKeysOf(f) : OccursIn(k, g)
                                    /\ ~BeginsWith(g, f)}

\* pr is mapped to itself and two fields an evaluation wrote, gt (which has
\* no evaluation among the label fields' ones that adds any) to itself.
C6_Witness ==
    /\ op = "generate_field_exclude_mapping"
    /\ \E i \in 1..Len(result) :
          /\ result[i].key = f_pr
          /\ ToSet(result[i].value) = {f_pr, f_gt_ev, f_ev_fr}
    /\ \E i \in 1..Len(result) :
          /\ result[i].key = f_gt
          /\ result[i].value = <<f_gt>>

\* The place of the evaluation key k in the registry.
RegistryIndex(k) ==
    CHOOSE n \in 1..Len(dataset.evals) : dataset.evals[n].eval_key = k

\* How often the record occurs in the list.
Occurrences(record, records) ==
    Cardinality({n \in 1..Len(records) : records[n] = record})

\* C7: generate_field_eval_mapping gives each field f of the label fields one
\* record {eval_key, prediction} per evaluation whose prediction field is f
\* and one record {eval_key, ground_truth} per evaluation whose ground-truth
\* field is f, in registry order, and nothing else: no field outside the
\* label fields, no field without an evaluation.
C7_EvalMapping ==
    op = "generate_field_eval_mapping" =>
        /\ \A i, j \in 1..Len(result) : i # j => result[i].key # result[j].key
        /\ \A i \in 1..Len(result) :
              /\ result[i].key \in ToSet(params.label_fields)
              /\ result[i].value # <<>>
              /\ \A a, b \in 1..Len(result[i].value) :
                    a < b => RegistryIndex(result[i].value[a].eval_key)
                                <= RegistryIndex(result[i].value[b].eval_key)
        /\ \A f \in ToSet(params.label_fields) :
              LET records == ItemGet(result, f, <<>>)
              IN  /\ \A n \in 1..Len(dataset.evals) :
                        LET run == dataset.evals[n]
                        IN  /\ Occurrences([eval_key |-> run.eval_key,
                                            role |-> "prediction"], records)
                                  = IF run.pred_field = f THEN 1 ELSE 0
                            /\ Occurrences([eval_key |-> run.eval_key,
                                            role |-> "ground_truth"], records)
                                  = IF run.gt_field = f THEN 1 ELSE 0
                  /\ \A r \in 1..Len(records) :
                        /\ records[r].role \in {"prediction", "ground_truth"}
                        /\ \E n \in 1..Len(dataset.evals) :
                              dataset.evals[n].eval_key = records[r].eval_key

\* One evaluation, with pr as its prediction field and a ground-truth field
\* that is no label field of the dataset.
C7_Witness ==
    /\ op = "generate_field_eval_mapping"
    /\ dataset.evals =
          <<[eval_key |-> k_ev, pred_field |-> f_pr, gt_field |-> f_gt]>>
    /\ params.label_fields = <<f_pr>>
    /\ result = <<[key |-> f_pr,
                   value |-> <<[eval_key |-> k_ev, role |-> "prediction"]>>]>>

\* The description the save form was sent, "" when it was sent none.
SentDescription ==
    IF "description" \in DOMAIN params /\ params["description"] # None
    THEN params["description"] ELSE <<>>

\* C8: after SaveModelPickerView(name, d) the registry holds one view called
\* name, and the ListModelPickerViews that follows returns an entry for name
\* whose description is d.
C8_SaveListRoundTrip ==
    [][ (op = "save_model_picker_view" /\ op' = "list_model_picker_views")
        => /\ Cardinality({i \in 1..Len(savedViews) :
                              savedViews[i].name = params["name"]}) = 1
           /\ \E i \in 1..Len(result'.views) :
                 /\ result'.views[i].name = params["name"]
                 /\ result'.views[i].description = SentDescription ]_vars

\* The statistics entries returned, sample fields first.
StatsEntries == result.sample_fields \o result.frame_fields

\* The host's answers to the count and the distinct query of the n-th label
\* field.
CountAnswer(n) ==
    LET lf == LeveledFields(dataset)[n]
    IN  host.count[CountPath(FieldPath(lf.field.name, lf.level), lf.field.type)]

DistinctAnswer(n) ==
    LET lf == LeveledFields(dataset)[n]
    IN  host.distinct[
            DistinctPath(FieldPath(lf.field.name, lf.level), lf.field.type)]

\* Every label field has its entry, in order.
EveryFieldHasItsEntry ==
    /\ Len(StatsEntries) = Len(LeveledFields(dataset))
    /\ \A n \in 1..Len(StatsEntries) :
          /\ StatsEntries[n].name = LeveledFields(dataset)[n].field.name
          /\ StatsEntries[n].level = LeveledFields(dataset)[n].level

C10_SelectedStayVisible ==
    (op = "apply_model_picker" /\ calls = <<"set_view">>)
        => \A g \in view :
              \A f \in SelectedSet \cap LabelFieldSet : ~BeginsWith(g, f)

====
